---- MODULE Spec2Model ----
(***************************************************************************)
(* Model of core/views.py (UploadView) and core/models.py.                 *)
(*                                                                         *)
(* One upload request is handled at a time by UploadView.post; the model   *)
(* splits the handler at its outbound HTTP calls, whose responses are the  *)
(* inputs of the steps.  Python values are tagged records: None, a missing *)
(* dict key (Absent) and strings (Str), a string being a sequence of       *)
(* one-character strings.                                                  *)
(***************************************************************************)
EXTENDS Integers, Sequences, FiniteSets, TLC

VARIABLES
    pc,               \* position of the handler
    file,             \* request.FILES.get('file')
    audioRows,        \* AudioSearch table, row id = index
    searchRows,       \* SearchResult table, row id = index
    links,            \* AudioSearch.search_results (many-to-many), <<audio id, result id>>
    storedFiles,      \* number of files in the 'audio_searches/' storage
    audio_search,     \* id of the AudioSearch row of the running request, 0 if none
    processing_time,  \* local processing_time of post
    audd_response,    \* what the request to AudD.io ended in, None before it
    audd_result,      \* recognition_result['result']
    youtube_results,  \* local youtube_results of post
    tmdb_results,     \* results of _get_tmdb_streaming_availability, then local tmdb_results
    combined_results, \* local combined_results of post
    tmdb_items,       \* items of the TMDB search response still to be looped over
    region,           \* parameter region of _get_providers
    regIdx,           \* index in fallback_regions of the next region of the for loop
    provider_urls,    \* local provider_urls of _get_providers
    calls,            \* outbound HTTP requests sent by the running request, in order
    response          \* the Response returned by post, NoResponse while it runs

vars == <<pc, file, audioRows, searchRows, links, storedFiles, audio_search,
          processing_time, audd_response, audd_result, youtube_results, tmdb_results,
          combined_results, tmdb_items, region, regIdx, provider_urls, calls, response>>

(***************************************************************************)
(* Bounds of the model.                                                    *)
(***************************************************************************)
MaxItems == 2      \* entries of a YouTube or TMDB search response
MaxFlatrate == 2   \* entries of a region's flatrate provider list
MaxLen == 2        \* length of a list handed to _combine_results on its own

(***************************************************************************)
(* Python values.                                                          *)
(***************************************************************************)
None == [t |-> "None"]
Absent == [t |-> "absent"]
Str(s) == [t |-> "str", s |-> s]
List(l) == [t |-> "list", v |-> l]

IsStr(v) == v.t = "str"

\* dict.get(key, default): the default replaces a missing key only, never a null.
Get(v, default) == IF v = Absent THEN default ELSE v

\* Truth value of None, of a missing key read through .get(key), and of a string.
Truthy(v) == IsStr(v) /\ v.s # <<>>

Upper == <<"A", "B", "C", "D", "E", "F", "G", "H", "I", "J", "K", "L", "M",
           "N", "O", "P", "Q", "R", "S", "T", "U", "V", "W", "X", "Y", "Z">>
Lowered == <<"a", "b", "c", "d", "e", "f", "g", "h", "i", "j", "k", "l", "m",
             "n", "o", "p", "q", "r", "s", "t", "u", "v", "w", "x", "y", "z">>

LowerChar(c) ==
    IF \E i \in 1..Len(Upper) : Upper[i] = c
    THEN Lowered[CHOOSE i \in 1..Len(Upper) : Upper[i] = c]
    ELSE c

\* str.lower()
Lower(s) == [i \in 1..Len(s) |-> LowerChar(s[i])]

RECURSIVE LStrip(_)
LStrip(s) == IF s # <<>> /\ Head(s) = " " THEN LStrip(Tail(s)) ELSE s

RECURSIVE RStrip(_)
RStrip(s) == IF s # <<>> /\ s[Len(s)] = " " THEN RStrip(SubSeq(s, 1, Len(s) - 1)) ELSE s

\* str.strip()
Strip(s) == RStrip(LStrip(s))

\* str.endswith(suffix)
EndsWith(s, suffix) ==
    Len(s) >= Len(suffix) /\ SubSeq(s, Len(s) - Len(suffix) + 1, Len(s)) = suffix

\* str.startswith(prefix)
StartsWith(s, prefix) == Len(s) >= Len(prefix) /\ SubSeq(s, 1, Len(prefix)) = prefix

\* needle in s
Contains(s, needle) ==
    \E i \in 1..(Len(s) - Len(needle) + 1) : SubSeq(s, i, i + Len(needle) - 1) = needle

\* f"{v}": None formats as the text None.
Format(v) == IF v = None THEN <<"N", "o", "n", "e">> ELSE v.s

(***************************************************************************)
(* _combine_results                                                        *)
(***************************************************************************)
default_thumbnail == Str(<<"p", "h">>)

\* if not r.get('thumbnail_url') or r['thumbnail_url'].endswith("None"): r['thumbnail_url'] = default
FixThumbnail(r) ==
    IF ~Truthy(r.thumbnail_url) \/ EndsWith(r.thumbnail_url.s, <<"N", "o", "n", "e">>)
    THEN [r EXCEPT !.thumbnail_url = default_thumbnail]
    ELSE r

\* isinstance(l, list)
IsList(l) == l.t = "list"

\* title.lower().strip()
NormTitle(r) == Strip(Lower(r.title.s))

\* {r.get('title', '').lower().strip() for r in youtube_results if isinstance(r, dict) and r.get('title')}
YoutubeTitles(youtube) ==
    {NormTitle(youtube[i]) : i \in {j \in 1..Len(youtube) : Truthy(youtube[j].title)}}

\* The loop without line 305: an appended title is not added to the seen titles.
RECURSIVE AppendTmdbUnseen(_, _, _)
AppendTmdbUnseen(tmdb, combined, seen) ==
    IF tmdb = <<>> THEN combined
    ELSE LET tmdb_res == Head(tmdb) IN
         IF ~Truthy(tmdb_res.title) \/ NormTitle(tmdb_res) \in seen
         THEN AppendTmdbUnseen(Tail(tmdb), combined, seen)
         ELSE AppendTmdbUnseen(Tail(tmdb), Append(combined, FixThumbnail(tmdb_res)), seen)

\* The loop over tmdb_results, lines 297-305: combined and the seen titles grow together.
RECURSIVE AppendTmdb(_, _, _)
AppendTmdb(tmdb, combined, seen) ==
    IF tmdb = <<>> THEN combined
    ELSE LET tmdb_res == Head(tmdb) IN
         IF ~Truthy(tmdb_res.title) THEN AppendTmdb(Tail(tmdb), combined, seen)
         ELSE IF NormTitle(tmdb_res) \in seen THEN AppendTmdb(Tail(tmdb), combined, seen)
         ELSE AppendTmdb(Tail(tmdb), Append(combined, FixThumbnail(tmdb_res)),
                         seen \cup {NormTitle(tmdb_res)})

\* The list _combine_results returns, as a sequence.
CombineResults(youtube, tmdb) ==
    IF ~IsList(youtube) \/ ~IsList(tmdb)
    THEN IF IsList(youtube) THEN youtube.v ELSE <<>>
    ELSE AppendTmdb(tmdb.v, [i \in 1..Len(youtube.v) |-> FixThumbnail(youtube.v[i])],
                    YoutubeTitles(youtube.v))

\* In-place effect of _combine_results on the dicts of its arguments: every dict of
\* youtube_results, and the appended dicts of tmdb_results, get their thumbnail fixed.
MutatedYoutube(youtube, tmdb) ==
    IF ~IsList(youtube) \/ ~IsList(tmdb) THEN youtube
    ELSE List([i \in 1..Len(youtube.v) |-> FixThumbnail(youtube.v[i])])

RECURSIVE MutatedTmdbFrom(_, _)
MutatedTmdbFrom(tmdb, seen) ==
    IF tmdb = <<>> THEN <<>>
    ELSE LET tmdb_res == Head(tmdb) IN
         IF ~Truthy(tmdb_res.title) \/ NormTitle(tmdb_res) \in seen
         THEN <<tmdb_res>> \o MutatedTmdbFrom(Tail(tmdb), seen)
         ELSE <<FixThumbnail(tmdb_res)>>
              \o MutatedTmdbFrom(Tail(tmdb), seen \cup {NormTitle(tmdb_res)})

MutatedTmdb(youtube, tmdb) ==
    IF ~IsList(youtube) \/ ~IsList(tmdb) THEN tmdb
    ELSE List(MutatedTmdbFrom(tmdb.v, YoutubeTitles(youtube.v)))

(***************************************************************************)
(* _get_providers                                                          *)
(***************************************************************************)
\* fallback_regions = [region, "US", "GB", "IN"]
fallback_regions(reg) == <<reg, "US", "GB", "IN">>

NoProviders ==
    [netflix |-> None, prime |-> None, hulu |-> None, disney |-> None, tmdb_watch |-> None]

\* One iteration of the loop over flatrate, lines 260-269.
AssignProvider(urls, name) ==
    LET provider_name == Lower(name) IN
    IF Contains(provider_name, <<"n", "e", "t", "f", "l", "i", "x">>) /\ ~Truthy(urls.netflix)
    THEN [urls EXCEPT !.netflix = urls.tmdb_watch]
    ELSE IF (Contains(provider_name, <<"p", "r", "i", "m", "e">>)
             \/ Contains(provider_name, <<"a", "m", "a", "z", "o", "n">>))
            /\ ~Truthy(urls.prime)
    THEN [urls EXCEPT !.prime = urls.tmdb_watch]
    ELSE IF Contains(provider_name, <<"h", "u", "l", "u">>) /\ ~Truthy(urls.hulu)
    THEN [urls EXCEPT !.hulu = urls.tmdb_watch]
    ELSE IF Contains(provider_name, <<"d", "i", "s", "n", "e", "y">>) /\ ~Truthy(urls.disney)
    THEN [urls EXCEPT !.disney = urls.tmdb_watch]
    ELSE urls

RECURSIVE ScanFlatrate(_, _)
ScanFlatrate(urls, flatrate) ==
    IF flatrate = <<>> THEN urls
    ELSE ScanFlatrate(AssignProvider(urls, Head(flatrate)), Tail(flatrate))

\* Lines 256-269: the region's link, then its flatrate list.
RegionData(urls, link, flatrate) ==
    ScanFlatrate([urls EXCEPT !.tmdb_watch = link], flatrate)

\* any(url for key, url in provider_urls.items() if key != 'tmdb_watch')
AnyNamed(urls) ==
    Truthy(urls.netflix) \/ Truthy(urls.prime) \/ Truthy(urls.hulu) \/ Truthy(urls.disney)

(***************************************************************************)
(* The request and the responses of the three services: the inputs.        *)
(***************************************************************************)
NoFile == None

ContentTypes ==
    { <<"a", "u", "d", "i", "o", "/", "m">>,      \* audio/m
      <<"a", "u", "d", "i", "o">>,                \* audio
      <<"v", "i", "d", "e", "o", "/", "m">>,      \* video/m
      <<>> }

Files ==
    {NoFile} \cup [content_type : ContentTypes,
                   size : {10 * 1024 * 1024, 10 * 1024 * 1024 + 1}]

Titles == {Absent, None, Str(<<>>), Str(<<"A">>)}
Artists == {Absent, Str(<<"B">>)}

\* What requests.post(url, ...) of _process_audio ends in: an exception, a status
\* that is not 200, or a 200 whose JSON body is data.
AuddOutcomes ==
    [kind : {"exception", "status"}]
    \cup [kind : {"json"}, status : {"success", "error"}, result : {Absent, None}]
    \cup [kind : {"json"}, status : {"success", "error"},
          result : [title : Titles, artist : Artists]]

\* Sequences of at most n elements of S.
SeqUpTo(S, n) == UNION {[1..k -> S] : k \in 0..n}

\* An item of the YouTube search response; the second has no thumbnails, the third
\* has no id.videoId.
YoutubeItems ==
    { [videoId |-> Str(<<"1">>), title |-> Str(<<"A">>), thumbnail |-> Str(<<"t">>)],
      [videoId |-> Str(<<"2">>), title |-> Str(<<"a", " ">>), thumbnail |-> Absent],
      [videoId |-> Absent, title |-> Str(<<"A">>), thumbnail |-> Absent] }

YoutubeOutcomes ==
    [kind : {"exception"}] \cup [kind : {"json"}, items : SeqUpTo(YoutubeItems, MaxItems)]

\* An item of the TMDB multi search response.
TmdbItems ==
    { [media_type |-> "person", title |-> Absent, name |-> Str(<<"A">>), poster_path |-> Absent],
      [media_type |-> "movie", title |-> Str(<<"A">>), name |-> Absent, poster_path |-> Str(<<"/", "p">>)],
      [media_type |-> "tv", title |-> Absent, name |-> Str(<<"C">>), poster_path |-> None],
      [media_type |-> "tv", title |-> None, name |-> None, poster_path |-> Absent] }

TmdbOutcomes ==
    [kind : {"exception"}] \cup [kind : {"json"}, items : SeqUpTo(TmdbItems, MaxItems)]

ProviderNames ==
    { <<"N", "e", "t", "f", "l", "i", "x">>,
      <<"A", "m", "a", "z", "o", "n", " ", "P", "r", "i", "m", "e">>,
      <<"H", "u", "l", "u">>,
      <<"D", "i", "s", "n", "e", "y">>,
      <<"M", "u", "b", "i">> }

\* region_data.get("link") of a region
Link(reg) == Str(<<"w", reg>>)

\* The flatrate lists of the provider responses: every list when _get_providers is
\* run on its own, two of them inside the upload flow, where only the tmdb_watch
\* slot is read.
Flatrates == SeqUpTo(ProviderNames, MaxFlatrate)
FlowFlatrates == { <<>>, << <<"N", "e", "t", "f", "l", "i", "x">> >> }

\* What the provider request of one region ends in: an exception, a body whose
\* results lack the region, a body whose results are not a mapping, or the region's data.
ProviderOutcomes(reg, flatrates) ==
    [kind : {"exception", "noregion", "malformed"}]
    \cup [kind : {"data"}, link : {None, Link(reg)}, flatrate : flatrates]

(***************************************************************************)
(* UploadView.post and the helpers it calls                                *)
(***************************************************************************)
NoResponse == None

\* time.time() - start_time: some float, never None
Elapsed == [t |-> "float"]

db == <<audioRows, searchRows, links, storedFiles>>
provider_locals == <<region, regIdx, provider_urls>>
result_locals == <<youtube_results, tmdb_results, combined_results, tmdb_items>>

\* return Response({"error": msg}, status=...)
ErrorResponse(status, msg) ==
    /\ response' = [status |-> status, error |-> msg]
    /\ pc' = "responded"

\* The checks with the size check one byte too strict.
ValidationErrorStrict(f) ==
    IF f = NoFile THEN "No file uploaded"
    ELSE IF ~StartsWith(f.content_type, <<"a", "u", "d", "i", "o", "/">>)
    THEN "File must be an audio file"
    ELSE IF f.size >= 10 * 1024 * 1024 THEN "File size must be less than 10MB"
    ELSE ""

\* The three checks of lines 17-31: the reason of the rejection, or "" if none.
ValidationError(f) ==
    IF f = NoFile THEN "No file uploaded"
    ELSE IF ~StartsWith(f.content_type, <<"a", "u", "d", "i", "o", "/">>)
    THEN "File must be an audio file"
    ELSE IF f.size > 10 * 1024 * 1024 THEN "File size must be less than 10MB"
    ELSE ""

\* post, lines 14-36: validation, then AudioSearch.objects.create(audio_file=file).
Post ==
    /\ pc = "received"
    /\ \E f \in Files :
         /\ file' = f
         /\ IF ValidationError(f) # ""
            THEN /\ ErrorResponse(400, ValidationError(f))
                 /\ UNCHANGED <<audioRows, storedFiles, audio_search>>
            ELSE /\ audioRows' = Append(audioRows, [audio_file |-> f, is_processed |-> FALSE,
                                                    processing_time |-> None])
                 /\ storedFiles' = storedFiles + 1
                 /\ audio_search' = Len(audioRows) + 1
                 /\ pc' = "process_audio"
                 /\ UNCHANGED response
    /\ UNCHANGED <<searchRows, links, processing_time, audd_response, audd_result, calls>>
    /\ UNCHANGED <<result_locals, provider_locals>>

\* _process_audio without the check of data's status.
ProcessAudioReturnAnyStatus(o) ==
    IF o.kind = "json" /\ o.result # Absent THEN o ELSE None

\* _process_audio: the response's data, or None.
ProcessAudioReturn(o) ==
    IF o.kind = "json" /\ o.status = "success" /\ o.result # Absent THEN o ELSE None

\* not recognition_result or 'result' not in recognition_result
\*     or recognition_result['result'] is None
RecognitionFailed(recognition_result) ==
    \/ recognition_result = None
    \/ recognition_result.result = Absent
    \/ recognition_result.result = None

\* post, lines 39-44.
ProcessAudio ==
    /\ pc = "process_audio"
    /\ calls' = Append(calls, [api |-> "audd"])
    /\ processing_time' = Elapsed
    /\ \E o \in AuddOutcomes :
         LET recognition_result == ProcessAudioReturn(o) IN
         /\ audd_response' = o
         /\ IF RecognitionFailed(recognition_result)
            THEN /\ ErrorResponse(500, "Audio recognition failed or no result found")
                 /\ UNCHANGED audd_result
            ELSE /\ audd_result' = recognition_result.result
                 /\ pc' = "youtube"
                 /\ UNCHANGED response
    /\ UNCHANGED <<file, db, audio_search, result_locals, provider_locals>>

\* query = f"{title} {artist}".strip()
YoutubeQuery(r) ==
    Strip(Format(Get(r.title, Str(<<>>))) \o <<" ">> \o Format(Get(r.artist, Str(<<>>))))

youtube_default_thumbnail == Str(<<"y", "t">>)

\* The dict appended at lines 158-170.  duration, channel_name, view_count and the
\* four search links, which are fixed or derived from the query, are left out.
YoutubeRecord(item) ==
    [title |-> Get(item.title, Str(<<>>)),
     platform |-> "YouTube",
     url |-> Str(<<"y">> \o item.videoId.s),
     thumbnail_url |-> Get(item.thumbnail, youtube_default_thumbnail)]

\* _get_youtube_results, called at line 47.
GetYoutubeResults ==
    /\ pc = "youtube"
    /\ LET query == YoutubeQuery(audd_result) IN
       IF query = <<>>
       THEN /\ youtube_results' = List(<<>>)
            /\ pc' = "tmdb_search"
            /\ UNCHANGED <<calls, response>>
       ELSE /\ calls' = Append(calls, [api |-> "youtube", q |-> query])
            /\ \E o \in YoutubeOutcomes :
                 IF o.kind = "exception"
                 THEN /\ youtube_results' = List(<<>>)
                      /\ pc' = "tmdb_search"
                      /\ UNCHANGED response
                 ELSE IF \E i \in 1..Len(o.items) : o.items[i].videoId = Absent
                 THEN /\ ErrorResponse(500, "Processing failed")
                      /\ UNCHANGED youtube_results
                 ELSE /\ youtube_results' = List([i \in 1..Len(o.items) |-> YoutubeRecord(o.items[i])])
                      /\ pc' = "tmdb_search"
                      /\ UNCHANGED response
    /\ UNCHANGED <<file, db, audio_search, processing_time, audd_response, audd_result>>
    /\ UNCHANGED <<tmdb_results, combined_results, tmdb_items, provider_locals>>

\* The items of the TMDB search response, each with its id.
WithIds(items) ==
    [i \in 1..Len(items) |->
        [id |-> i, media_type |-> items[i].media_type, title |-> items[i].title,
         name |-> items[i].name, poster_path |-> items[i].poster_path]]

\* _get_tmdb_streaming_availability, lines 183-197: the search request.
TmdbSearch ==
    /\ pc = "tmdb_search"
    /\ LET title == Get(audd_result.title, Str(<<>>)) IN
       IF ~Truthy(title)
       THEN /\ tmdb_items' = <<>>
            /\ pc' = "combine"
            /\ UNCHANGED calls
       ELSE /\ calls' = Append(calls, [api |-> "tmdb", query |-> title.s])
            /\ \E o \in TmdbOutcomes :
                 IF o.kind = "exception"
                 THEN tmdb_items' = <<>> /\ pc' = "combine"
                 ELSE tmdb_items' = WithIds(o.items) /\ pc' = "tmdb_loop"
    /\ tmdb_results' = List(<<>>)
    /\ UNCHANGED <<file, db, audio_search, processing_time, audd_response, audd_result, response>>
    /\ UNCHANGED <<youtube_results, combined_results, provider_locals>>

\* The head of the loop over the search results, lines 198-204: the end of the
\* loop, an item that is skipped, or the call of _get_providers(tmdb_id, media_type).
TmdbLoop ==
    /\ pc = "tmdb_loop"
    /\ \/ /\ tmdb_items = <<>>
          /\ pc' = "combine"
          /\ UNCHANGED <<tmdb_items, provider_locals>>
       \/ /\ tmdb_items # <<>>
          /\ Head(tmdb_items).media_type \notin {"movie", "tv"}
          /\ tmdb_items' = Tail(tmdb_items)
          /\ UNCHANGED <<pc, provider_locals>>
       \/ /\ tmdb_items # <<>>
          /\ Head(tmdb_items).media_type \in {"movie", "tv"}
          /\ region' = "US"
          /\ regIdx' = 1
          /\ provider_urls' = NoProviders
          /\ pc' = "providers"
          /\ UNCHANGED tmdb_items
    /\ UNCHANGED <<file, db, audio_search, processing_time, audd_response, audd_result, calls, response>>
    /\ UNCHANGED <<youtube_results, tmdb_results, combined_results>>

\* The loop without the break of lines 271-272.
AfterRegionNoBreak(urls, idx, reg) == idx + 1

\* The index the loop over fallback_regions goes on with after a region's data:
\* past the end on the break of lines 271-272.
AfterRegion(urls, idx, reg) ==
    IF AnyNamed(urls) THEN Len(fallback_regions(reg)) + 1 ELSE idx + 1

\* _get_providers, lines 245-275: one iteration of the loop over fallback_regions.
GetProviders(flatrates) ==
    /\ pc = "providers"
    /\ regIdx <= Len(fallback_regions(region))
    /\ LET reg == fallback_regions(region)[regIdx]
           item == Head(tmdb_items) IN
       /\ calls' = Append(calls, [api |-> "providers", media_type |-> item.media_type,
                                  id |-> item.id, region |-> reg])
       /\ \E o \in ProviderOutcomes(reg, flatrates) :
            IF o.kind \in {"exception", "noregion"}
            THEN /\ regIdx' = regIdx + 1
                 /\ UNCHANGED <<provider_urls, pc, response>>
            ELSE IF o.kind = "malformed"
            THEN /\ ErrorResponse(500, "Processing failed")
                 /\ UNCHANGED <<provider_urls, regIdx>>
            ELSE /\ provider_urls' = RegionData(provider_urls, o.link, o.flatrate)
                 /\ regIdx' = AfterRegion(provider_urls', regIdx, region)
                 /\ UNCHANGED <<pc, response>>
    /\ UNCHANGED <<file, db, audio_search, processing_time, audd_response, audd_result, region>>
    /\ UNCHANGED result_locals

\* The dict appended at lines 213-225; the fields left out are those left out of
\* YoutubeRecord.
TmdbRecord(item, movie_title, providers) ==
    [title |-> movie_title,
     platform |-> "TMDB",
     url |-> providers.tmdb_watch,
     thumbnail_url |-> IF Truthy(item.poster_path)
                       THEN Str(<<"i">> \o item.poster_path.s)
                       ELSE default_thumbnail]

\* The rest of the loop body, lines 205-225, once _get_providers has returned
\* (its locals end with it).  movie_title.replace raises when neither title nor
\* name is a string.
TmdbAppend ==
    /\ pc = "providers"
    /\ regIdx > Len(fallback_regions(region))
    /\ LET item == Head(tmdb_items)
           movie_title == IF Truthy(item.title) THEN item.title
                          ELSE Get(item.name, Str(<<>>)) IN
       IF ~IsStr(movie_title)
       THEN /\ ErrorResponse(500, "Processing failed")
            /\ UNCHANGED <<tmdb_results, tmdb_items>>
       ELSE /\ tmdb_results' = List(Append(tmdb_results.v,
                                            TmdbRecord(item, movie_title, provider_urls)))
            /\ tmdb_items' = Tail(tmdb_items)
            /\ pc' = "tmdb_loop"
            /\ UNCHANGED response
    /\ regIdx' = 1
    /\ provider_urls' = NoProviders
    /\ UNCHANGED <<file, db, audio_search, processing_time, audd_response, audd_result, calls>>
    /\ UNCHANGED <<youtube_results, combined_results, region>>

\* post, line 53.
Combine ==
    /\ pc = "combine"
    /\ combined_results' = CombineResults(youtube_results, tmdb_results)
    /\ youtube_results' = MutatedYoutube(youtube_results, tmdb_results)
    /\ tmdb_results' = MutatedTmdb(youtube_results, tmdb_results)
    /\ pc' = "persist"
    /\ UNCHANGED <<file, db, audio_search, processing_time, audd_response, audd_result, calls, response>>
    /\ UNCHANGED <<tmdb_items, provider_locals>>

\* No record is skipped.
MissingUrlNever(result_data) == FALSE

\* not result_data.get('url')
MissingUrl(result_data) == ~Truthy(result_data.url)

\* The dicts of combined_results that lines 57-64 create a SearchResult for.
ToCreate(combined) == SelectSeq(combined, LAMBDA result_data : ~MissingUrl(result_data))

\* The update without line 68.
ProcessedNoDuration(row, elapsed) == [row EXCEPT !.is_processed = TRUE]

\* The AudioSearch row after lines 67-69.
Processed(row, elapsed) == [row EXCEPT !.is_processed = TRUE, !.processing_time = elapsed]

\* post, lines 56-94: the SearchResult rows, the update of the AudioSearch row and
\* the response.
Persist ==
    /\ pc = "persist"
    /\ LET created == ToCreate(combined_results)
           ids == [i \in 1..Len(created) |-> Len(searchRows) + i] IN
       /\ searchRows' = searchRows \o created
       /\ links' = links \cup {<<audio_search, ids[i]>> : i \in 1..Len(created)}
       /\ audioRows' = [audioRows EXCEPT
                          ![audio_search] = Processed(audioRows[audio_search], processing_time)]
       /\ response' = [status |-> 200, search_id |-> audio_search,
                       processing_time |-> processing_time,
                       results |-> [i \in 1..Len(created) |->
                                      [id |-> ids[i], title |-> created[i].title,
                                       platform |-> created[i].platform,
                                       url |-> created[i].url,
                                       thumbnail_url |-> created[i].thumbnail_url]]]
    /\ pc' = "responded"
    /\ UNCHANGED <<file, storedFiles, audio_search, processing_time, audd_response, audd_result, calls>>
    /\ UNCHANGED <<result_locals, provider_locals>>

(***************************************************************************)
(* The upload flow: one request against a store that is empty or holds     *)
(* what earlier requests left, a processed search with its result and a    *)
(* search whose recognition failed.                                        *)
(***************************************************************************)
EarlierFile == [content_type |-> <<"a", "u", "d", "i", "o", "/", "m">>, size |-> 1]

EarlierResult ==
    [title |-> Str(<<"A">>), platform |-> "YouTube", url |-> Str(<<"y", "1">>),
     thumbnail_url |-> Str(<<"t">>)]

Stores ==
    { [audioRows |-> <<>>, searchRows |-> <<>>, links |-> {}, storedFiles |-> 0],
      [audioRows |-> << [audio_file |-> EarlierFile, is_processed |-> TRUE,
                         processing_time |-> Elapsed],
                        [audio_file |-> EarlierFile, is_processed |-> FALSE,
                         processing_time |-> None] >>,
       searchRows |-> <<EarlierResult>>, links |-> {<<1, 1>>}, storedFiles |-> 2] }

InitLocals ==
    /\ file = NoFile
    /\ audio_search = 0
    /\ processing_time = None
    /\ audd_response = None
    /\ audd_result = None
    /\ combined_results = None
    /\ calls = <<>>
    /\ response = NoResponse

Init ==
    /\ pc = "received"
    /\ \E store \in Stores :
         /\ audioRows = store.audioRows
         /\ searchRows = store.searchRows
         /\ links = store.links
         /\ storedFiles = store.storedFiles
    /\ InitLocals
    /\ youtube_results = None
    /\ tmdb_results = None
    /\ tmdb_items = <<>>
    /\ region = "US"
    /\ regIdx = 1
    /\ provider_urls = NoProviders

Next ==
    \/ Post
    \/ ProcessAudio
    \/ GetYoutubeResults
    \/ TmdbSearch
    \/ TmdbLoop
    \/ GetProviders(FlowFlatrates)
    \/ TmdbAppend
    \/ Combine
    \/ Persist

Spec == Init /\ [][Next]_vars

(***************************************************************************)
(* _get_providers on its own: any preferred region, any flatrate list.     *)
(***************************************************************************)
Regions == {"US", "GB", "FR"}

InitProviders ==
    /\ pc = "providers"
    /\ audioRows = <<>> /\ searchRows = <<>> /\ links = {} /\ storedFiles = 0
    /\ InitLocals
    /\ youtube_results = None
    /\ tmdb_results = List(<<>>)
    /\ tmdb_items \in {WithIds(<<item>>) : item \in {it \in TmdbItems : it.media_type # "person"}}
    /\ region \in Regions
    /\ regIdx = 1
    /\ provider_urls = NoProviders

NextProviders == GetProviders(Flatrates)

SpecProviders == InitProviders /\ [][NextProviders]_vars

(***************************************************************************)
(* _combine_results on its own: any two arguments, lists or not.           *)
(***************************************************************************)
MergeRecords ==
    { [title |-> Str(<<"A">>), platform |-> "YouTube", url |-> Str(<<"u">>),
       thumbnail_url |-> Str(<<"t">>)],
      [title |-> Str(<<"a", " ">>), platform |-> "TMDB", url |-> Str(<<"u">>),
       thumbnail_url |-> None],
      [title |-> Str(<<" ">>), platform |-> "TMDB", url |-> None,
       thumbnail_url |-> Str(<<"t", "N", "o", "n", "e">>)],
      [title |-> Str(<<>>), platform |-> "TMDB", url |-> Str(<<"u">>),
       thumbnail_url |-> Str(<<"t">>)],
      [title |-> None, platform |-> "YouTube", url |-> Str(<<"u">>),
       thumbnail_url |-> Absent],
      [title |-> Str(<<"B">>), platform |-> "TMDB", url |-> Str(<<"u">>),
       thumbnail_url |-> Str(<<"t">>)] }

MergeInputs == {None, Str(<<"A">>)} \cup {List(l) : l \in SeqUpTo(MergeRecords, MaxLen)}

InitMerge ==
    /\ pc = "combine"
    /\ audioRows = <<>> /\ searchRows = <<>> /\ links = {} /\ storedFiles = 0
    /\ InitLocals
    /\ youtube_results \in MergeInputs
    /\ tmdb_results \in MergeInputs
    /\ tmdb_items = <<>>
    /\ region = "US"
    /\ regIdx = 1
    /\ provider_urls = NoProviders

NextMerge == Combine

SpecMerge == InitMerge /\ [][NextMerge]_vars

(***************************************************************************)
(* Properties of _combine_results (SpecMerge).                             *)
(***************************************************************************)
\* The records of l with the placeholder thumbnail policy applied.
Thumbs(l) == [i \in 1..Len(l) |-> FixThumbnail(l[i])]

\* The title of a record as text, an absent or null title being the empty text,
\* lowercased and trimmed.
Normalized(r) == IF IsStr(r.title) THEN Strip(Lower(r.title.s)) ELSE <<>>

\* The records of t at the positions of K, from position j on, in t's order.
RECURSIVE PickFrom(_, _, _)
PickFrom(t, K, j) ==
    IF j > Len(t) THEN <<>>
    ELSE (IF j \in K THEN <<t[j]>> ELSE <<>>) \o PickFrom(t, K, j + 1)

\* K is the set of positions of t whose normalized title is that of no record of y
\* and of no earlier position of K.
AppendedAsClaimed(y, t, K) ==
    \A j \in 1..Len(t) :
        j \in K <=> /\ \A i \in 1..Len(y) : Normalized(y[i]) # Normalized(t[j])
                    /\ \A k \in K : k < j => Normalized(t[k]) # Normalized(t[j])

\* The same, for the records that have a title: a record of t without one is never
\* appended, and a record of y without one hides nothing.
AppendedTitled(y, t, K) ==
    \A j \in 1..Len(t) :
        j \in K <=> /\ Truthy(t[j].title)
                    /\ \A i \in 1..Len(y) :
                          Truthy(y[i].title) => Normalized(y[i]) # Normalized(t[j])
                    /\ \A k \in K : k < j => Normalized(t[k]) # Normalized(t[j])

\* C6 as stated: when exactly one argument of the merge is not a list the merge
\* returns the records of the other one, whichever position is malformed, and the
\* empty list when neither is a list.
C6_MalformedReturnsOther ==
    [][pc = "combine" =>
        LET y == youtube_results
            t == tmdb_results IN
        /\ (IsList(y) /\ ~IsList(t)) => combined_results' \in {y.v, Thumbs(y.v)}
        /\ (~IsList(y) /\ IsList(t)) => combined_results' \in {t.v, Thumbs(t.v)}
        /\ (~IsList(y) /\ ~IsList(t)) => combined_results' = <<>>]_vars

\* C7 as stated: for two lists the merge returns the whole first list, in order,
\* followed in order by exactly the records of the second list whose normalized
\* title is that of no first-list record and of no earlier appended record.
C7_MergeAsClaimed ==
    [][(pc = "combine" /\ IsList(youtube_results) /\ IsList(tmdb_results)) =>
        \E K \in SUBSET (1..Len(tmdb_results.v)) :
            /\ AppendedAsClaimed(youtube_results.v, tmdb_results.v, K)
            /\ combined_results' =
                 Thumbs(youtube_results.v) \o Thumbs(PickFrom(tmdb_results.v, K, 1))]_vars

\* C7 amended: for two lists the merge returns the whole first list, in order,
\* followed in order by exactly the records of the second list that have a
\* non-empty title whose normalized form is that of no titled first-list record and
\* of no earlier appended record.
C7_MergeTitled ==
    [][(pc = "combine" /\ IsList(youtube_results) /\ IsList(tmdb_results)) =>
        \E K \in SUBSET (1..Len(tmdb_results.v)) :
            /\ AppendedTitled(youtube_results.v, tmdb_results.v, K)
            /\ combined_results' =
                 Thumbs(youtube_results.v) \o Thumbs(PickFrom(tmdb_results.v, K, 1))]_vars

\* Two lists were merged, a record of the second was dropped for a title that
\* differs from a first-list title in case and whitespace only, and another was
\* appended.
C7_Witness ==
    /\ pc = "persist"
    /\ IsList(youtube_results) /\ IsList(tmdb_results)
    /\ Len(combined_results) = Len(youtube_results.v) + 1
    /\ Len(tmdb_results.v) = 2
    /\ \E i \in 1..Len(youtube_results.v), j \in 1..Len(tmdb_results.v) :
          /\ youtube_results.v[i].title # tmdb_results.v[j].title
          /\ Truthy(tmdb_results.v[j].title)
          /\ Normalized(youtube_results.v[i]) = Normalized(tmdb_results.v[j])

(***************************************************************************)
(* Properties of _get_providers (SpecProviders).                           *)
(***************************************************************************)
NamedSlots(urls) == <<urls.netflix, urls.prime, urls.hulu, urls.disney>>

\* The provider requests sent so far went to the fallback regions in their order.
InFallbackOrder ==
    /\ Len(calls) <= Len(fallback_regions(region))
    /\ \A i \in 1..Len(calls) : calls[i].region = fallback_regions(region)[i]

\* C8: provider resolution is first-match-wins over [preferred, US, GB, IN]: the
\* regions are queried in that order; once a region has filled one of the four
\* named slots no later region is queried and no slot changes any more, so a filled
\* named slot is never overwritten; and the scan that ends with no named slot
\* filled, the generic link set or not, has queried all four entries.
C8_FirstMatchWins ==
    /\ [](InFallbackOrder)
    /\ []((pc = "providers" /\ regIdx > Len(fallback_regions(region))
           /\ ~AnyNamed(provider_urls)) => Len(calls) = Len(fallback_regions(region)))
    /\ [][AnyNamed(provider_urls) => (calls' = calls /\ provider_urls' = provider_urls)]_vars
    /\ [][\A i \in 1..4 : Truthy(NamedSlots(provider_urls)[i])
              => NamedSlots(provider_urls')[i] = NamedSlots(provider_urls)[i]]_vars

\* Two regions were passed without a named slot being filled, then the third,
\* GB, filled one and ended the scan with IN never queried.
C8_Witness ==
    /\ pc = "providers"
    /\ region = "FR"
    /\ Len(calls) = 3
    /\ regIdx > Len(fallback_regions(region))
    /\ provider_urls.hulu = Link("GB")
    /\ provider_urls.netflix = None

(***************************************************************************)
(* Properties of the upload flow (Spec).                                   *)
(***************************************************************************)
\* The file field is present, its MIME type starts with audio/ and its size is at
\* most 10,485,760 bytes.
AcceptableUpload(f) ==
    /\ f # NoFile
    /\ StartsWith(f.content_type, <<"a", "u", "d", "i", "o", "/">>)
    /\ f.size <= 10485760

\* C1: an acceptable upload passes validation and the flow creates its
\* AudioSearch record; any other request is answered 400 with a reason, leaves the
\* AudioSearch rows, the SearchResult rows, their links and the stored files as
\* they were, and sends no outbound request.
C1_Validation ==
    [][pc = "received" =>
        IF AcceptableUpload(file')
        THEN /\ pc' = "process_audio"
             /\ audioRows' = Append(audioRows, [audio_file |-> file', is_processed |-> FALSE,
                                                processing_time |-> None])
             /\ audio_search' = Len(audioRows')
             /\ response' = NoResponse
        ELSE /\ pc' = "responded"
             /\ response'.status = 400
             /\ response'.error # ""
             /\ UNCHANGED db
             /\ calls' = <<>>]_vars

\* An upload one byte over the limit was rejected against a store that holds
\* earlier searches.
C1_Witness ==
    /\ pc = "responded"
    /\ response.status = 400
    /\ file # NoFile
    /\ file.size = 10485761
    /\ StartsWith(file.content_type, <<"a", "u", "d", "i", "o", "/">>)
    /\ Len(audioRows) = 2

\* C2 as stated: once the fingerprint step has returned a usable match, no failure
\* of the video search or of the metadata service, a malformed payload included,
\* makes the request fail: the response is 200.
C2_EnrichmentNeverFatal ==
    (audd_result # None /\ response # NoResponse) => response.status = 200

\* The fingerprint step yielded no usable match: the service was unreachable,
\* answered another status than 200, another status than success, no result key
\* or a null result.
NoUsableMatch(o) ==
    \/ o.kind \in {"exception", "status"}
    \/ o.status # "success"
    \/ o.result = Absent
    \/ o.result = None

\* C3: when the fingerprint step yields no usable match the request ends with a 500
\* that says 'Audio recognition failed', the AudD.io request is the only outbound
\* request sent and no SearchResult row is created.
C3_RecognitionFailure ==
    (audd_response # None /\ NoUsableMatch(audd_response)) =>
        /\ pc = "responded"
        /\ response = [status |-> 500, error |-> "Audio recognition failed or no result found"]
        /\ calls = <<[api |-> "audd"]>>
        /\ \E store \in Stores : searchRows = store.searchRows /\ links = store.links

\* AudD.io answered {status: success, result: null} and the request was answered.
C3_Witness ==
    /\ pc = "responded"
    /\ audd_response # None
    /\ audd_response.kind = "json"
    /\ audd_response.status = "success"
    /\ audd_response.result = None

\* C4: every SearchResult row has a non-empty url, and so has every entry of the
\* results of a 200 response.
C4_UrlNonEmpty ==
    /\ \A i \in 1..Len(searchRows) : Truthy(searchRows[i].url)
    /\ (response # NoResponse /\ response.status = 200) =>
          \A i \in 1..Len(response.results) : Truthy(response.results[i].url)

\* A 200 response that returns a record, the merge having held a record without
\* url, which is in neither set.
C4_Witness ==
    /\ pc = "responded"
    /\ response.status = 200
    /\ Len(response.results) = 1
    /\ Len(searchRows) = 1
    /\ \E i \in 1..Len(combined_results) : combined_results[i].url = None

\* C5 as stated: within one upload request no outbound request is sent twice.
C5_NoCallTwice ==
    \A i, j \in 1..Len(calls) : i # j => calls[i] # calls[j]

\* The AudioSearch row of the running request.
RunningRow == audioRows[audio_search]

\* C9: the AudioSearch row exists before the first outbound request and only for
\* an acceptable upload; a processed row has a duration; a 200 response names a
\* processed row; a 500 leaves the row unprocessed with a null duration; and the
\* row is written once, by the step that ends the request with a 200 and persists
\* the results, after which neither it nor the results change.
C9_Lifecycle ==
    /\ [](calls # <<>> => audio_search \in 1..Len(audioRows))
    /\ [](audio_search # 0 => AcceptableUpload(file))
    /\ [](\A i \in 1..Len(audioRows) :
             audioRows[i].is_processed => audioRows[i].processing_time # None)
    /\ []((response # NoResponse /\ response.status = 200) =>
             /\ response.search_id = audio_search
             /\ RunningRow.is_processed)
    /\ []((response # NoResponse /\ response.status = 500 /\ audio_search # 0) =>
             /\ ~RunningRow.is_processed
             /\ RunningRow.processing_time = None)
    /\ [][audio_search # 0 =>
            /\ audioRows' # audioRows =>
                  /\ ~RunningRow.is_processed
                  /\ pc = "persist" /\ pc' = "responded"
                  /\ response'.status = 200
                  /\ audioRows' = [audioRows EXCEPT ![audio_search] =
                                     [audio_file |-> file, is_processed |-> TRUE,
                                      processing_time |-> Elapsed]]
            /\ RunningRow.is_processed => UNCHANGED db]_vars

\* A request answered 200 with two results, its row the third of the table.
C9_Witness ==
    /\ pc = "responded"
    /\ response.status = 200
    /\ audio_search = 3
    /\ Len(response.results) = 2
    /\ audioRows[3].is_processed

\* The text of a field, an absent or null field being empty.
FieldText(v) == IF IsStr(v) THEN v.s ELSE <<>>

\* C10 as stated: the video search is sent exactly when title or artist is
\* non-empty, an absent or null field being empty, with the two joined by a space
\* and trimmed as its query; the metadata search is sent exactly when title is
\* non-empty, with the title as its query.
C10_LookupsIssued ==
    pc \in {"combine", "tmdb_loop"} =>
        LET title == FieldText(audd_result.title)
            artist == FieldText(audd_result.artist)
            video == {i \in 1..Len(calls) : calls[i].api = "youtube"}
            metadata == {i \in 1..Len(calls) : calls[i].api = "tmdb"} IN
        /\ video # {} <=> (title # <<>> \/ artist # <<>>)
        /\ \A i \in video : calls[i].q = Strip(title \o <<" ">> \o artist)
        /\ metadata # {} <=> title # <<>>
        /\ \A i \in metadata : calls[i].query = title

====
